---- MODULE Spec2Model ----
(***************************************************************************)
(* Chat client session of golang-chat (src/gui.go): the connection         *)
(* supervisor (connect, startReconnectionTrying), the inbound event        *)
(* handlers bound by initClientCallbacks, and the channel directory.       *)
(*                                                                         *)
(* Time is counted in whole seconds.  The goroutine started by main, the   *)
(* retry goroutines and the event/GUI callbacks are separate processes;    *)
(* every blocking call (time.Sleep, Dial) ends an atomic step.             *)
(***************************************************************************)
EXTENDS Integers, Sequences, FiniteSets, TLC

(***************************************************************************)
(* Program constants                                                       *)
(***************************************************************************)
\* the reserved id of the MAIN channel (gui.go:57 "0 // main channel",
\* gui.go:270 "GROUP_CHAT_ID // MAIN chat")
GROUP_CHAT_ID == 0
GROUP_CHANNEL_TITLE == "MAIN"
NOTES_CHANNEL_TITLE == "NOTES"
DEFAULT_HOST == "localhost"
DEFAULT_PORT == 3811
\* time.Sleep(10 * time.Second) at the head of startReconnectionTrying
InitialDelaySecs == 10
\* for i := 0; i < 10; i++
MaxAttempts == 10
\* fmt.Sprintf("%dm", i): i minutes
SecsPerMinute == 60
\* time.Sleep(1 * time.Second) at the head of connect
SettleSecs == 1

(***************************************************************************)
(* Bounds of the model                                                     *)
(***************************************************************************)
\* a Dial call returns after 0..MaxDialSecs seconds
MaxDialSecs == 1
\* the displayed list holds at most MaxMsgs messages
MaxMsgs == 1
\* the directory holds at most MaxChannels channels
MaxChannels == 2
\* the channel list the server sends holds at most MaxListed channels
MaxListed == 1

(***************************************************************************)
(* Input domains                                                           *)
(***************************************************************************)
\* ids the server gives to users (never the group id)
UserIds == {3, 7, 9}
\* the username the server has registered for an id
UsernameOf(id) == CASE id = 7 -> "bob" [] id = 9 -> "ann" [] OTHER -> "MAIN"
ChatIds == {GROUP_CHAT_ID} \cup UserIds
\* UserPublicInfo / User, reduced to the fields the client reads
Identities == {[Id |-> id, Username |-> UsernameOf(id)] : id \in UserIds}
\* the zero value of User, held by CurrentUser before the first /login
NoUser == [Id |-> 0, Username |-> ""]
\* SavedMessage: UserData (author) and ChatId; text and date are not read
Messages == [UserData : Identities, ChatId : ChatIds]
\* Channel{Id, Title}
ChannelRecs == {[Id |-> u.Id, Title |-> u.Username] : u \in Identities}
\* what Dial's error can say
DialErrors == {"refused", "timeout"}
\* HostData values
HostDatas == {[Host |-> DEFAULT_HOST, Port |-> DEFAULT_PORT],
              [Host |-> "chat.example", Port |-> 4000]}
NoAddr == [Host |-> "", Port |-> 0]
\* json.Marshal of a HostData: the object with the keys of the struct tags
Marshal(hostData) == [host |-> hostData.Host, port |-> hostData.Port]
\* json.Unmarshal of such an object into a HostData
Unmarshal(object) == [Host |-> object.host, Port |-> object.port]
\* settings.json: absent, not parsable as a HostData, or a JSON object
NoObject == [host |-> "", port |-> 0]
SettingsFiles ==
  [state : {"absent", "corrupt"}, data : {NoObject}]
    \cup [state : {"ok"}, data : {Marshal(hostData) : hostData \in HostDatas}]
\* ioutil.WriteFile succeeds or fails
WriteOutcomes == BOOLEAN
\* the nil *gosocketio.Client
NoClient == 0

VARIABLES
  \* ChatApplication fields
  Client, Connected, CurrentUser, LoggedIn, CurrentChatId, Channels,
  \* MessagesList content, ChannelsRadioGroup.Options and .Selected
  MessagesList, Options, Selected,
  \* the login / register dialogs of dialog.ShowCustomConfirm that are open
  prompts,
  \* dialogs shown through dialog.ShowError / dialog.ShowInformation
  dialogs,
  \* the outbound events the last step gave to Client.Emit
  emitted,
  \* the goroutine of main's "go chatApp.connect(host, port, false)"
  mainPc, mainAddr,
  \* the goroutines started by "go chatApp.startReconnectionTrying()"
  retry,
  \* settings.json
  settings,
  \* the transport: handles whose connection is up, number of Dial calls,
  \* and the <<handle, event>> pairs a handler was registered for with On
  alive, dials, bound,
  \* wall clock (seconds) and the time of the initial dial failure (-1: none)
  now, failedAt,
  \* the step taken last, with the values it started from
  last

appVars == <<Client, Connected, CurrentUser, LoggedIn, CurrentChatId, Channels>>
viewVars == <<MessagesList, Options, Selected, prompts>>
procVars == <<mainPc, mainAddr, retry>>
envVars == <<settings, alive, dials, bound>>
timeVars == <<now, failedAt>>
vars == <<appVars, viewVars, dialogs, emitted, procVars, envVars, timeVars, last>>

(***************************************************************************)
(* Helpers                                                                 *)
(***************************************************************************)
\* dialog.ShowError(errors.New(description), ...) through showError
ErrorDialog(text, addr, descr) ==
  [kind |-> "error", text |-> text, addr |-> addr, descr |-> descr]

\* dialog.ShowInformation("Success!", "Connection restored!", ...)
InfoDialog(text) ==
  [kind |-> "info", text |-> text, addr |-> NoAddr, descr |-> ""]

\* showError: one more error dialog
showError(ds, text, addr, descr) == Append(ds, ErrorDialog(text, addr, descr))

\* getHostDataFromSettingsFile: the (host, port) it returns
LoadedHostData(file) ==
  IF file.state \in {"absent", "corrupt"}
    THEN [Host |-> DEFAULT_HOST, Port |-> DEFAULT_PORT]
    ELSE Unmarshal(file.data)

\* a load that rewrites the defaults over a well-formed file too
FileAfterLoadAlways(file, written) ==
  IF written
    THEN [state |-> "ok",
          data |-> Marshal([Host |-> DEFAULT_HOST, Port |-> DEFAULT_PORT])]
    ELSE file

\* getHostDataFromSettingsFile / saveDefaultHostSettings: the file afterwards
\* (a failed write is only logged)
FileAfterLoad(file, written) ==
  IF file.state \in {"absent", "corrupt"} /\ written
    THEN [state |-> "ok",
          data |-> Marshal([Host |-> DEFAULT_HOST, Port |-> DEFAULT_PORT])]
    ELSE file

\* a fresh goroutine running startReconnectionTrying
NewRetryLoop ==
  [pc |-> "initial", i |-> 0, addr |-> NoAddr,
   delay |-> 0, prevDelay |-> 0, firedAt |-> 0, fired |-> 0]

\* "go chatApp.startReconnectionTrying()"
StartRetryLoop(loops) == Append(loops, NewRetryLoop)

(***************************************************************************)
(* Initial state: after chatApp.init()                                     *)
(***************************************************************************)
Init ==
  /\ Client = NoClient
  /\ Connected = FALSE
  /\ CurrentUser = NoUser
  /\ LoggedIn = FALSE
  /\ CurrentChatId = 0
  /\ Channels = <<>>
  /\ MessagesList = <<>>
  /\ Options = <<>>
  /\ Selected = ""
  /\ prompts = {}
  /\ dialogs = <<>>
  /\ emitted = <<>>
  /\ mainPc = "load"
  /\ mainAddr = NoAddr
  /\ retry = <<>>
  /\ settings \in SettingsFiles
  /\ alive = {}
  /\ dials = 0
  /\ bound = {}
  /\ now = 0
  /\ failedAt = -1
  /\ last = [ev |-> "none"]

(***************************************************************************)
(* connect and the retry loop                                              *)
(***************************************************************************)
\* the event names initClientCallbacks binds
InboundEvents ==
  {"/failed-login", "/failed-registeration", "/login", "/message",
   "/get-messages", "/get-channels"}

\* initClientCallbacks: six client.On calls on chatApp.Client
initClientCallbacks(s) ==
  [s EXCEPT !.bound = @ \cup {<<s.Client, e>> : e \in InboundEvents}]

\* client.On returns an error only for a handler that is not a function of
\* one or two arguments; the handlers connect registers are well formed
OnErrors == {FALSE}

\* the outcomes of gosocketio.Dial
DialOutcomes ==
  [ok : {TRUE}, err : {""}, secs : 0..MaxDialSecs]
    \cup [ok : {FALSE}, err : DialErrors, secs : 0..MaxDialSecs]

\* connect that reports every failed dial, retries included
connectNoisyRetry(s, addr, isReconnect, d, h, onErr1, onErr2) ==
  IF ~d.ok
    THEN IF ~isReconnect
           THEN [s EXCEPT !.dialogs = showError(@, "Can't connect to host", addr, d.err),
                          !.retry = StartRetryLoop(@),
                          !.ret = FALSE]
           ELSE [s EXCEPT !.dialogs = showError(@, "Can't connect to host", addr, d.err),
                          !.ret = FALSE]
    ELSE [s EXCEPT !.bound = @ \cup {<<h, "disconnection">>, <<h, "connection">>}
                                \cup {<<h, e>> : e \in InboundEvents},
                   !.Client = h,
                   !.Connected = TRUE,
                   !.ret = TRUE]

\* connect that binds every handler and leaves Connected as it was
connectLeavesFlag(s, addr, isReconnect, d, h, onErr1, onErr2) ==
  IF ~d.ok
    THEN IF ~isReconnect
           THEN [s EXCEPT !.dialogs = showError(@, "Can't connect to host", addr, d.err),
                          !.retry = StartRetryLoop(@),
                          !.ret = FALSE]
           ELSE [s EXCEPT !.ret = FALSE]
    ELSE [s EXCEPT !.bound = @ \cup {<<h, "disconnection">>, <<h, "connection">>}
                                \cup {<<h, e>> : e \in InboundEvents},
                   !.Client = h,
                   !.ret = TRUE]

\* connect, from the return of Dial on: s holds the fields it reads and
\* writes, d is Dial's outcome, h the handle Dial returned; ret is its result
connect(s, addr, isReconnect, d, h, onErr1, onErr2) ==
  IF ~d.ok
    THEN IF ~isReconnect
           THEN [s EXCEPT !.dialogs = showError(@, "Can't connect to host", addr, d.err),
                          !.retry = StartRetryLoop(@),
                          !.ret = FALSE]
           ELSE [s EXCEPT !.ret = FALSE]
    ELSE IF onErr1
      THEN [s EXCEPT !.dialogs = showError(@, "On", NoAddr, "OnDisconnection"),
                     !.ret = FALSE]
    ELSE IF onErr2
      THEN [s EXCEPT !.dialogs = showError(@, "On", NoAddr, "OnConnection"),
                     !.bound = @ \cup {<<h, "disconnection">>},
                     !.ret = FALSE]
    ELSE initClientCallbacks(
           [s EXCEPT !.bound = @ \cup {<<h, "disconnection">>, <<h, "connection">>},
                     !.Client = h,
                     !.Connected = TRUE,
                     !.ret = TRUE])

\* the fields connect works on, as they are now
ConnectState ==
  [Client |-> Client, Connected |-> Connected, dialogs |-> dialogs,
   retry |-> retry, bound |-> bound, ret |-> FALSE]

\* what a step records of the state it started from
Pre ==
  [Client |-> Client, Connected |-> Connected, dialogs |-> dialogs,
   loops |-> Len(retry), dials |-> dials]

\* main: host, port := getHostDataFromSettingsFile(); go chatApp.connect(...)
MainLoad(written) ==
  /\ mainPc = "load"
  /\ mainAddr' = LoadedHostData(settings)
  /\ settings' = FileAfterLoad(settings, written)
  /\ mainPc' = "settle"
  /\ last' = [ev |-> "load", pre |-> Pre, file |-> settings,
              ret |-> LoadedHostData(settings), written |-> written]
  /\ emitted' = <<>>
  /\ UNCHANGED <<appVars, viewVars, dialogs, retry, alive, dials,
                 bound, timeVars>>

\* connect(host, port, false): time.Sleep(1 * time.Second)
MainSettle ==
  /\ mainPc = "settle"
  /\ now' = now + SettleSecs
  /\ mainPc' = "dial"
  /\ last' = [ev |-> "sleep", pre |-> Pre]
  /\ emitted' = <<>>
  /\ UNCHANGED <<appVars, viewVars, dialogs, mainAddr, retry,
                 envVars, failedAt>>

\* connect(host, port, false): Dial and everything after it
MainDial(d, onErr1, onErr2) ==
  /\ mainPc = "dial"
  /\ LET h == dials + 1
         r == connect(ConnectState, mainAddr, FALSE, d, h, onErr1, onErr2)
     IN /\ Client' = r.Client
        /\ Connected' = r.Connected
        /\ dialogs' = r.dialogs
        /\ retry' = r.retry
        /\ bound' = r.bound
        /\ alive' = IF d.ok THEN alive \cup {h} ELSE alive
        /\ last' = [ev |-> "connect", isReconnect |-> FALSE, dial |-> d,
                    addr |-> mainAddr, ret |-> r.ret, attempt |-> 0,
                    at |-> now, pre |-> Pre]
  /\ dials' = dials + 1
  /\ now' = now + d.secs
  /\ failedAt' = IF d.ok THEN failedAt ELSE now + d.secs
  /\ mainPc' = "done"
  /\ emitted' = <<>>
  /\ UNCHANGED <<CurrentUser, LoggedIn, CurrentChatId, Channels, viewVars,
                 mainAddr, settings>>

\* a backoff that does not grow: one minute before every attempt but the first
BackoffSecsFlat(i) == IF i # 0 THEN SecsPerMinute ELSE 0

\* the delay startReconnectionTrying sleeps before attempt i (0-based):
\* nothing for i = 0, ParseDuration(Sprintf("%dm", i)) otherwise
BackoffSecs(i) == IF i # 0 THEN i * SecsPerMinute ELSE 0

\* startReconnectionTrying: time.Sleep(10 * time.Second)
RetryInitialSleep(l) ==
  /\ retry[l].pc = "initial"
  /\ now' = now + InitialDelaySecs
  /\ retry' = [retry EXCEPT ![l].pc = "top", ![l].i = 0]
  /\ last' = [ev |-> "sleep", pre |-> Pre]
  /\ emitted' = <<>>
  /\ UNCHANGED <<appVars, viewVars, dialogs, mainPc, mainAddr,
                 envVars, failedAt>>

\* startReconnectionTrying, loop body up to the call of connect: the sleep of
\* i minutes and getHostDataFromSettingsFile
RetryBackoff(l, written) ==
  /\ retry[l].pc = "top"
  /\ now' = now + BackoffSecs(retry[l].i)
  /\ retry' = [retry EXCEPT ![l].pc = "settle",
                            ![l].prevDelay = retry[l].delay,
                            ![l].delay = BackoffSecs(retry[l].i),
                            ![l].addr = LoadedHostData(settings)]
  /\ settings' = FileAfterLoad(settings, written)
  /\ last' = [ev |-> "reload", pre |-> Pre, file |-> settings,
              ret |-> LoadedHostData(settings), written |-> written]
  /\ emitted' = <<>>
  /\ UNCHANGED <<appVars, viewVars, dialogs, mainPc, mainAddr,
                 alive, dials, bound, failedAt>>

\* connect(host, port, true): time.Sleep(1 * time.Second)
RetrySettle(l) ==
  /\ retry[l].pc = "settle"
  /\ now' = now + SettleSecs
  /\ retry' = [retry EXCEPT ![l].pc = "dial"]
  /\ last' = [ev |-> "sleep", pre |-> Pre]
  /\ emitted' = <<>>
  /\ UNCHANGED <<appVars, viewVars, dialogs, mainPc, mainAddr,
                 envVars, failedAt>>

\* a loop that runs one attempt too many
AfterAttemptOneMore(loop, ds, ret) ==
  IF ret
    THEN [loop |-> [loop EXCEPT !.pc = "done"],
          dialogs |-> Append(ds, InfoDialog("Connection restored!"))]
    ELSE [loop |-> [loop EXCEPT !.i = @ + 1,
                                !.pc = IF loop.i + 1 <= MaxAttempts
                                         THEN "top" ELSE "done"],
          dialogs |-> ds]

\* a loop that does not return after a successful reconnect
AfterAttemptNoReturn(loop, ds, ret) ==
  [loop |-> [loop EXCEPT !.i = @ + 1,
                         !.pc = IF loop.i + 1 < MaxAttempts
                                  THEN "top" ELSE "done"],
   dialogs |-> IF ret THEN Append(ds, InfoDialog("Connection restored!"))
                      ELSE ds]

\* startReconnectionTrying after connect has returned ret: the loop record
\* and the dialogs
AfterAttempt(loop, ds, ret) ==
  IF ret
    THEN [loop |-> [loop EXCEPT !.pc = "done"],
          dialogs |-> Append(ds, InfoDialog("Connection restored!"))]
    ELSE [loop |-> [loop EXCEPT !.i = @ + 1,
                                !.pc = IF loop.i + 1 < MaxAttempts
                                         THEN "top" ELSE "done"],
          dialogs |-> ds]

\* connect(host, port, true) from Dial on, and the rest of the loop body
RetryDial(l, d, onErr1, onErr2) ==
  /\ retry[l].pc = "dial"
  /\ LET h == dials + 1
         r == connect(ConnectState, retry[l].addr, TRUE, d, h, onErr1, onErr2)
         fired == [r.retry[l] EXCEPT !.fired = @ + 1, !.firedAt = now]
         a == AfterAttempt(fired, r.dialogs, r.ret)
     IN /\ Client' = r.Client
        /\ Connected' = r.Connected
        /\ dialogs' = a.dialogs
        /\ retry' = [r.retry EXCEPT ![l] = a.loop]
        /\ bound' = r.bound
        /\ alive' = IF d.ok THEN alive \cup {h} ELSE alive
        /\ last' = [ev |-> "connect", isReconnect |-> TRUE, dial |-> d,
                    addr |-> retry[l].addr, ret |-> r.ret,
                    attempt |-> retry[l].i + 1, at |-> now, pre |-> Pre]
  /\ dials' = dials + 1
  /\ now' = now + d.secs
  /\ emitted' = <<>>
  /\ UNCHANGED <<CurrentUser, LoggedIn, CurrentChatId, Channels, viewVars,
                 mainPc, mainAddr, settings, failedAt>>

\* a disconnect handler that also restarts the retry loop
OnDisconnectionRetries(s) ==
  [s EXCEPT !.dialogs = showError(@, "Disconnected!", NoAddr, ""),
            !.retry = StartRetryLoop(@)]

\* the OnDisconnection handler connect registers: chatApp.showError("Disconnected!")
OnDisconnection(s) ==
  [s EXCEPT !.dialogs = showError(@, "Disconnected!", NoAddr, "")]

\* the transport of handle h goes down and runs the handler bound on it
Disconnect(h) ==
  /\ h \in alive
  /\ alive' = alive \ {h}
  /\ LET r == IF <<h, "disconnection">> \in bound
                THEN OnDisconnection(ConnectState) ELSE ConnectState
     IN /\ Client' = r.Client
        /\ Connected' = r.Connected
        /\ dialogs' = r.dialogs
        /\ retry' = r.retry
  /\ last' = [ev |-> "disconnect", handle |-> h, pre |-> Pre]
  /\ emitted' = <<>>
  /\ UNCHANGED <<CurrentUser, LoggedIn, CurrentChatId, Channels, viewVars,
                 mainPc, mainAddr, settings, dials, bound, timeVars>>

\* one step of a retry goroutine
RetryStep ==
  \E l \in DOMAIN retry :
    \/ RetryInitialSleep(l)
    \/ \E written \in WriteOutcomes : RetryBackoff(l, written)
    \/ RetrySettle(l)
    \/ \E d \in DialOutcomes, e1 \in OnErrors, e2 \in OnErrors :
         RetryDial(l, d, e1, e2)

\* the connection supervisor and the transport
NextConn ==
  \/ \E written \in WriteOutcomes : MainLoad(written)
  \/ MainSettle
  \/ \E d \in DialOutcomes, e1 \in OnErrors, e2 \in OnErrors : MainDial(d, e1, e2)
  \/ \E l \in DOMAIN retry : RetryInitialSleep(l)
  \/ \E l \in DOMAIN retry, written \in WriteOutcomes : RetryBackoff(l, written)
  \/ \E l \in DOMAIN retry : RetrySettle(l)
  \/ \E l \in DOMAIN retry, d \in DialOutcomes, e1 \in OnErrors, e2 \in OnErrors :
       RetryDial(l, d, e1, e2)
  \/ \E h \in alive : Disconnect(h)

SpecConn == Init /\ [][NextConn]_vars

\* goroutines are scheduled, sleeps end and Dial returns
SpecConnFair == SpecConn /\ WF_vars(RetryStep)

(***************************************************************************)
(* The session: inbound event handlers and the channel directory           *)
(***************************************************************************)
\* the fields the handlers and the GUI callbacks read and write; emitted
\* starts empty at every step
SessionState ==
  [Client |-> Client, Connected |-> Connected, CurrentUser |-> CurrentUser,
   LoggedIn |-> LoggedIn, CurrentChatId |-> CurrentChatId,
   Channels |-> Channels, MessagesList |-> MessagesList,
   Options |-> Options, Selected |-> Selected, prompts |-> prompts,
   dialogs |-> dialogs, emitted |-> <<>>]

\* an outbound event: its name, the chat id and the user it carries
Outbound(name, chatId, user) == [name |-> name, chatId |-> chatId, user |-> user]

\* chatApp.Client.Emit(name, payload)
Emit(s, name, chatId, user) ==
  [s EXCEPT !.emitted = Append(@, Outbound(name, chatId, user))]

\* SavedMessage.getChatType: "group" for the group chat id, else "private"
getChatType(msg) == IF msg.ChatId = GROUP_CHAT_ID THEN "group" ELSE "private"

\* addMessageToList: MessagesList.addMessage(msg) and refresh
addMessageToList(s, msg) == [s EXCEPT !.MessagesList = Append(@, msg)]

\* clearMessagesList
clearMessagesList(s) == [s EXCEPT !.MessagesList = <<>>]

\* loadChannels: Emit("/get-channels", ChannelsRequest{CurrentUser})
loadChannels(s) == Emit(s, "/get-channels", 0, s.CurrentUser)

\* loadMessages: nothing unless connected and logged in
loadMessages(s, chatId) ==
  IF ~s.Connected \/ ~s.LoggedIn
    THEN s
    ELSE Emit(s, "/get-messages", chatId, s.CurrentUser)

\* openChannel
openChannel(s, chatId) ==
  loadMessages([s EXCEPT !.CurrentChatId = chatId], chatId)

\* getChannelId: the first channel with that title, else the own id for the
\* notes title, else the group id
getChannelId(s, title) ==
  IF \E k \in DOMAIN s.Channels : s.Channels[k].Title = title
    THEN LET first == CHOOSE k \in DOMAIN s.Channels :
                        /\ s.Channels[k].Title = title
                        /\ \A j \in 1..(k - 1) : s.Channels[j].Title # title
         IN s.Channels[first].Id
    ELSE IF title = NOTES_CHANNEL_TITLE
      THEN s.CurrentUser.Id
      ELSE GROUP_CHAT_ID

\* the callback buildRightSidebar gives the radio group
OnChanged(s, changed) == openChannel(s, getChannelId(s, changed))

\* RadioGroup.SetSelected as the program uses it: nothing for the option
\* already selected, else select it and run the callback
SetSelected(s, option) ==
  IF s.Selected = option
    THEN s
    ELSE OnChanged([s EXCEPT !.Selected = option], option)

\* isChannelInList
isChannelInList(s, channelId) ==
  \E k \in DOMAIN s.Channels : s.Channels[k].Id = channelId

\* openChannelByUser that appends without looking the id up
openChannelByUserNoLookup(s, user) ==
  IF user.Id = s.CurrentUser.Id
    THEN SetSelected(s, NOTES_CHANNEL_TITLE)
    ELSE SetSelected(
           [s EXCEPT !.Options = Append(@, user.Username),
                     !.Channels = Append(@, [Id |-> user.Id, Title |-> user.Username])],
           user.Username)

\* openChannelByUser
openChannelByUser(s, user) ==
  IF user.Id = s.CurrentUser.Id
    THEN SetSelected(s, NOTES_CHANNEL_TITLE)
    ELSE LET s1 == IF ~isChannelInList(s, user.Id)
                     THEN [s EXCEPT !.Options = Append(@, user.Username),
                                    !.Channels = Append(@, [Id |-> user.Id,
                                                           Title |-> user.Username])]
                     ELSE s
         IN SetSelected(s1, user.Username)

\* the titles of a channel list, in order
Titles(chs) == [k \in DOMAIN chs |-> chs[k].Title]

\* refreshChannelList
refreshChannelList(s) ==
  [s EXCEPT !.Options = <<GROUP_CHANNEL_TITLE, NOTES_CHANNEL_TITLE>> \o Titles(s.Channels)]

\* a "/login" handler that keeps the open chat and the displayed messages
HandleLoginKeepsView(s, user) ==
  loadChannels([s EXCEPT !.CurrentUser = user, !.LoggedIn = TRUE])

\* the "/login" handler
HandleLogin(s, user) ==
  loadChannels(clearMessagesList(
    [s EXCEPT !.CurrentUser = user, !.LoggedIn = TRUE,
              !.CurrentChatId = GROUP_CHAT_ID]))

\* a "/message" handler that shows a message in the chat it was sent to,
\* whoever wrote it
HandleMessageByChatId(s, msg) ==
  IF s.CurrentChatId = msg.ChatId THEN addMessageToList(s, msg) ELSE s

\* a "/message" handler that tests the from-me branch before the notes branch
\* and shows group messages on every channel
HandleMessageLoose(s, msg) ==
  LET isMessageFromMe == msg.UserData.Id = s.CurrentUser.Id
      isMessageToMe == msg.ChatId = s.CurrentUser.Id
  IN IF getChatType(msg) = "group"
       THEN addMessageToList(s, msg)
       ELSE IF isMessageFromMe
         THEN addMessageToList(s, msg)
         ELSE IF isMessageToMe /\ s.CurrentChatId = msg.UserData.Id
           THEN addMessageToList(s, msg)
           ELSE s

\* the "/message" handler
HandleMessage(s, msg) ==
  LET currentChatId == s.CurrentChatId
      currentUserId == s.CurrentUser.Id
      chatType == getChatType(msg)
      isMessageFromMe == msg.UserData.Id = s.CurrentUser.Id
      isMessageToMe == msg.ChatId = s.CurrentUser.Id
      isNotesMessage == isMessageFromMe /\ isMessageToMe
      s1 == IF chatType = "group" /\ s.CurrentChatId = GROUP_CHAT_ID
              THEN addMessageToList(s, msg)
              ELSE s
  IN IF chatType = "private"
       THEN IF isNotesMessage /\ currentChatId = currentUserId
              THEN addMessageToList(s1, msg)
              ELSE IF isMessageFromMe /\ currentChatId = msg.ChatId
                THEN addMessageToList(s1, msg)
                ELSE IF isMessageToMe /\ currentChatId = msg.UserData.Id
                  THEN addMessageToList(s1, msg)
                  ELSE s1
       ELSE s1

\* the "/get-messages" handler
HandleGetMessages(s, messages) == [s EXCEPT !.MessagesList = messages]

\* the "/get-channels" handler
HandleGetChannels(s, channels) ==
  LET s1 == refreshChannelList([s EXCEPT !.Channels = channels])
  IN IF s1.CurrentChatId = GROUP_CHAT_ID
       THEN SetSelected(s1, GROUP_CHANNEL_TITLE)
       ELSE s1

\* LoginError.Description / RegistrationError.Description
Descriptions == {"denied"}

\* a dialog of dialog.ShowCustomConfirm: which one, and its title
Prompt(kind, title) == [kind |-> kind, title |-> title]

showLoginDialog(s, title) ==
  [s EXCEPT !.prompts = @ \cup {Prompt("login", title)}]

showRegisterDialog(s, title) ==
  [s EXCEPT !.prompts = @ \cup {Prompt("register", title)}]

\* the "/failed-login" handler
HandleFailedLogin(s, description) ==
  [showLoginDialog(s, description) EXCEPT !.LoggedIn = FALSE]

\* the "/failed-registeration" handler
HandleFailedRegistration(s, description) ==
  [showRegisterDialog(s, description) EXCEPT !.LoggedIn = FALSE]

NotConnectedText == "You are not connected to the server."
NotLoggedInText == "You are not logged in."

\* sendLoginData: the payload carries no identity and no chat
sendLoginData(s) ==
  IF s.Connected
    THEN Emit(s, "/login", 0, NoUser)
    ELSE [s EXCEPT !.dialogs = showError(@, NotConnectedText, NoAddr, "")]

sendRegisterData(s) ==
  IF s.Connected
    THEN Emit(s, "/register", 0, NoUser)
    ELSE [s EXCEPT !.dialogs = showError(@, NotConnectedText, NoAddr, "")]

sendMessage(s) ==
  IF s.Connected /\ s.LoggedIn
    THEN Emit(s, "/message", s.CurrentChatId, s.CurrentUser)
    ELSE IF ~s.LoggedIn
      THEN [s EXCEPT !.dialogs = showError(@, NotLoggedInText, NoAddr, "")]
      ELSE [s EXCEPT !.dialogs = showError(@, NotConnectedText, NoAddr, "")]

\* the callback of the "Login" button
LoginTapped(s) ==
  IF s.Connected
    THEN showLoginDialog(s, "Login")
    ELSE [s EXCEPT !.dialogs = showError(@, NotConnectedText, NoAddr, "")]

\* the callback of the "Register" button
RegisterTapped(s) ==
  IF s.Connected
    THEN showRegisterDialog(s, "Register")
    ELSE [s EXCEPT !.dialogs = showError(@, NotConnectedText, NoAddr, "")]

\* the callback of a login / register dialog
PromptClosed(s, prompt, result) ==
  LET closed == [s EXCEPT !.prompts = @ \ {prompt}]
  IN IF ~result THEN closed
     ELSE IF prompt.kind = "login" THEN sendLoginData(closed)
     ELSE sendRegisterData(closed)

\* a session step leaves the state r
SessionStep(r) ==
  /\ Client' = r.Client
  /\ Connected' = r.Connected
  /\ CurrentUser' = r.CurrentUser
  /\ LoggedIn' = r.LoggedIn
  /\ CurrentChatId' = r.CurrentChatId
  /\ Channels' = r.Channels
  /\ MessagesList' = r.MessagesList
  /\ Options' = r.Options
  /\ Selected' = r.Selected
  /\ prompts' = r.prompts
  /\ dialogs' = r.dialogs
  /\ emitted' = r.emitted
  /\ UNCHANGED <<procVars, envVars, timeVars>>

\* the server can deliver event e: the client's transport is up and a
\* handler for e is bound on it
Deliverable(e) == Client \in alive /\ <<Client, e>> \in bound

\* all sequences over S of length at most n
SeqsUpTo(S, n) == UNION {[1..k -> S] : k \in 0..n}

\* the channel lists the server sends with "/get-channels"
ChannelLists == SeqsUpTo(ChannelRecs, MaxListed)

\* the titles an option of the radio group can carry
OptionTitles ==
  {GROUP_CHANNEL_TITLE, NOTES_CHANNEL_TITLE} \cup {UsernameOf(id) : id \in UserIds}

\* the server sends "/login"
OnLogin(user) ==
  /\ Deliverable("/login")
  /\ SessionStep(HandleLogin(SessionState, user))
  /\ last' = [ev |-> "/login", user |-> user]

\* the server sends "/message"
OnMessage(msg) ==
  /\ Deliverable("/message")
  /\ Len(MessagesList) < MaxMsgs
  /\ LET r == HandleMessage(SessionState, msg)
     IN /\ SessionStep(r)
        /\ last' = [ev |-> "/message", msg |-> msg,
                    viewer |-> CurrentUser.Id, chat |-> CurrentChatId,
                    added |-> SubSeq(r.MessagesList, Len(MessagesList) + 1,
                                     Len(r.MessagesList))]

\* the server sends "/get-messages"
OnGetMessages(messages) ==
  /\ Deliverable("/get-messages")
  /\ SessionStep(HandleGetMessages(SessionState, messages))
  /\ last' = [ev |-> "/get-messages"]

\* the server sends "/get-channels"
OnGetChannels(channels) ==
  /\ Deliverable("/get-channels")
  /\ SessionStep(HandleGetChannels(SessionState, channels))
  /\ last' = [ev |-> "/get-channels"]

\* the user taps an option of the radio group that is not the selected one
\* (the group is Required, a tap on the selected option changes nothing)
TapChannel(title) ==
  /\ \E k \in DOMAIN Options : Options[k] = title
  /\ title # Selected
  /\ SessionStep(OnChanged([SessionState EXCEPT !.Selected = title], title))
  /\ last' = [ev |-> "tap", title |-> title, shown |-> Len(dialogs)]

\* the user taps the author of the k-th displayed message: the callback
\* buildCenter gives newMessageList calls openChannelByUser
TapAuthor(k) ==
  /\ k \in DOMAIN MessagesList
  /\ LET user == MessagesList[k].UserData
     IN /\ Len(Channels) < MaxChannels
             \/ isChannelInList(SessionState, user.Id)
             \/ user.Id = CurrentUser.Id
        /\ SessionStep(openChannelByUser(SessionState, user))
        /\ last' = [ev |-> "openChannelByUser", user |-> user,
                    viewer |-> CurrentUser.Id, Channels |-> Channels,
                    again |-> (last.ev = "openChannelByUser" /\ last.user = user)]

\* main finds no settings.json
MainLoadAbsent == settings.state = "absent" /\ MainLoad(TRUE)

\* the first dial succeeds at once
MainDialOk ==
  \E d \in DialOutcomes, e1 \in OnErrors, e2 \in OnErrors :
    d.ok /\ d.secs = 0 /\ MainDial(d, e1, e2)

\* the session of a client that started without settings.json and whose
\* first dial succeeded; the other ways to a connection are in NextConn
NextSession ==
  \/ MainLoadAbsent
  \/ MainSettle
  \/ MainDialOk
  \/ \E user \in Identities : OnLogin(user)
  \/ \E msg \in Messages : OnMessage(msg)
  \/ \E channels \in ChannelLists : OnGetChannels(channels)
  \/ \E title \in OptionTitles : TapChannel(title)
  \/ \E k \in 1..MaxMsgs : TapAuthor(k)

SpecSession == Init /\ [][NextSession]_vars

\* channel lists that name one channel twice
RepeatedLists == {<<channel, channel>> : channel \in ChannelRecs}

\* the session, with a server whose lists may repeat a channel
NextDirectory ==
  \/ NextSession
  \/ \E channels \in RepeatedLists : OnGetChannels(channels)

SpecDirectory == Init /\ [][NextDirectory]_vars

(***************************************************************************)
(* The user's actions and the failure events                               *)
(***************************************************************************)
\* error dialogs the user's actions may pile up
MaxDialogs == 1

\* the user's action may show one more error dialog
MayShow(r) == r.dialogs = dialogs \/ Len(dialogs) < MaxDialogs

\* the server sends "/failed-login"
OnFailedLogin(description) ==
  /\ Deliverable("/failed-login")
  /\ SessionStep(HandleFailedLogin(SessionState, description))
  /\ last' = [ev |-> "/failed-login", description |-> description]

\* the server sends "/failed-registeration"
OnFailedRegistration(description) ==
  /\ Deliverable("/failed-registeration")
  /\ SessionStep(HandleFailedRegistration(SessionState, description))
  /\ last' = [ev |-> "/failed-registeration", description |-> description,
              pre |-> [LoggedIn |-> LoggedIn, CurrentUser |-> CurrentUser,
                       CurrentChatId |-> CurrentChatId, Channels |-> Channels,
                       MessagesList |-> MessagesList, prompts |-> prompts]]

\* the user taps "Login"
LoginButton ==
  /\ MayShow(LoginTapped(SessionState))
  /\ SessionStep(LoginTapped(SessionState))
  /\ last' = [ev |-> "Login", shown |-> Len(dialogs)]

\* the user taps "Register"
RegisterButton ==
  /\ MayShow(RegisterTapped(SessionState))
  /\ SessionStep(RegisterTapped(SessionState))
  /\ last' = [ev |-> "Register", shown |-> Len(dialogs)]

\* the user closes a login / register dialog with "Ok" or "Cancel"
ClosePrompt(prompt, result) ==
  /\ prompt \in prompts
  /\ MayShow(PromptClosed(SessionState, prompt, result))
  /\ SessionStep(PromptClosed(SessionState, prompt, result))
  /\ last' = [ev |-> IF ~result THEN "Cancel"
                     ELSE IF prompt.kind = "login" THEN "sendLoginData"
                     ELSE "sendRegisterData",
              shown |-> Len(dialogs)]

\* the user sends a text that is not empty
SendMessage ==
  /\ MayShow(sendMessage(SessionState))
  /\ SessionStep(sendMessage(SessionState))
  /\ last' = [ev |-> "sendMessage", shown |-> Len(dialogs)]

Prompts == [kind : {"login", "register"},
            title : {"Login", "Register"} \cup Descriptions]

\* a session with its failure events, the user at the buttons and the entry,
\* and a transport that can go down
NextUser ==
  \/ MainLoadAbsent
  \/ MainSettle
  \/ MainDialOk
  \/ \E h \in alive : Disconnect(h)
  \/ \E user \in Identities : OnLogin(user)
  \/ \E description \in Descriptions : OnFailedLogin(description)
  \/ \E description \in Descriptions : OnFailedRegistration(description)
  \/ \E channels \in ChannelLists : OnGetChannels(channels)
  \/ \E title \in OptionTitles : TapChannel(title)
  \/ LoginButton
  \/ RegisterButton
  \/ \E prompt \in Prompts, result \in BOOLEAN : ClosePrompt(prompt, result)
  \/ SendMessage

SpecUser == Init /\ [][NextUser]_vars

\* the connection supervisor, the transport, and the server's answers to
\* login and registration requests
NextLogin ==
  \/ NextConn
  \/ \E user \in Identities : OnLogin(user)
  \/ \E description \in Descriptions : OnFailedLogin(description)
  \/ \E description \in Descriptions : OnFailedRegistration(description)

SpecLogin == Init /\ [][NextLogin]_vars

(***************************************************************************)
(* connect, statement by statement after Dial                              *)
(***************************************************************************)
\* connect from the return of a successful Dial up to and including
\* "chatApp.Connected = true": the two client.On calls and the assignments
connectOpened(s, h) ==
  [s EXCEPT !.bound = @ \cup {<<h, "disconnection">>, <<h, "connection">>},
            !.Client = h,
            !.Connected = TRUE,
            !.ret = TRUE]

\* the order of the client.On calls of initClientCallbacks
CallbackOrder ==
  <<"/failed-login", "/failed-registeration", "/login", "/message",
    "/get-messages", "/get-channels">>

\* the calls of initClientCallbacks that have not run yet
Unbound(s) == {k \in DOMAIN CallbackOrder : <<s.Client, CallbackOrder[k]>> \notin s.bound}

\* the next client.On call of initClientCallbacks
bindNext(s) ==
  LET k == CHOOSE k \in Unbound(s) : \A j \in Unbound(s) : k <= j
  IN [s EXCEPT !.bound = @ \cup {<<s.Client, CallbackOrder[k]>>}]

\* connect(host, port, false): Dial succeeds at once; connect runs up to
\* "chatApp.Connected = true"
MainOpen ==
  /\ mainPc = "dial"
  /\ LET h == dials + 1
         r == connectOpened(ConnectState, h)
     IN /\ Client' = r.Client
        /\ Connected' = r.Connected
        /\ bound' = r.bound
        /\ alive' = alive \cup {h}
  /\ dials' = dials + 1
  /\ mainPc' = "bind"
  /\ last' = [ev |-> "open"]
  /\ emitted' = <<>>
  /\ UNCHANGED <<CurrentUser, LoggedIn, CurrentChatId, Channels, viewVars,
                 dialogs, mainAddr, retry, settings, timeVars>>

\* connect(host, port, false): one client.On call of initClientCallbacks,
\* and the return after the last
MainBind ==
  /\ mainPc = "bind"
  /\ bound' = bindNext(ConnectState).bound
  /\ mainPc' = IF Cardinality(Unbound(ConnectState)) = 1 THEN "done" ELSE "bind"
  /\ last' = [ev |-> "bind"]
  /\ emitted' = <<>>
  /\ UNCHANGED <<appVars, viewVars, dialogs, mainAddr, retry,
                 settings, alive, dials, timeVars>>

\* the goroutine of connect beside the user at the buttons and the server
NextBind ==
  \/ MainLoadAbsent
  \/ MainSettle
  \/ MainOpen
  \/ MainBind
  \/ \E h \in alive : Disconnect(h)
  \/ \E user \in Identities : OnLogin(user)
  \/ \E description \in Descriptions : OnFailedLogin(description)
  \/ LoginButton
  \/ \E prompt \in Prompts, result \in BOOLEAN : ClosePrompt(prompt, result)

SpecBind == Init /\ [][NextBind]_vars

(***************************************************************************)
(* Properties of the connection supervisor                                 *)
(***************************************************************************)
\* 1 + 2 + ... + n
SumTo(n) == (n * (n + 1)) \div 2

\* the number of "Connection restored!" dialogs shown
Restored ==
  Cardinality({k \in DOMAIN dialogs : dialogs[k] = InfoDialog("Connection restored!")})

\* the dialog connect shows for a failed first dial
CantConnect(addr, err) == ErrorDialog("Can't connect to host", addr, err)

\* C4 as stated: retry attempt k is not dialed before 10 seconds plus
\* 1 + 2 + ... + k minutes after the initial dial failure, and the delays
\* between successive attempts grow strictly
RetryScheduleAsStated ==
  \A l \in DOMAIN retry :
    /\ retry[l].fired >= 1 =>
         retry[l].firedAt - failedAt >=
           InitialDelaySecs + SecsPerMinute * SumTo(retry[l].fired)
    /\ retry[l].delay # 0 => retry[l].delay > retry[l].prevDelay

\* C4 amended: retry attempt k is not dialed before 10 seconds plus
\* 0 + 1 + ... + (k-1) minutes after the initial dial failure, and the delay
\* the loop sleeps before an attempt grows strictly from attempt to attempt
RetrySchedule ==
  \A l \in DOMAIN retry :
    /\ retry[l].fired >= 1 =>
         retry[l].firedAt - failedAt >=
           InitialDelaySecs + SecsPerMinute * SumTo(retry[l].fired - 1)
    /\ retry[l].delay # 0 => retry[l].delay > retry[l].prevDelay

\* all ten attempts have been dialed
RetryScheduleWitness ==
  \E l \in DOMAIN retry : retry[l].fired = MaxAttempts /\ retry[l].delay > 0

\* a retry loop has made all its attempts without success
Exhausted(l) ==
  /\ retry[l].pc = "done"
  /\ retry[l].fired = MaxAttempts
  /\ Client = NoClient

\* C5, safety part: a loop dials at most ten times; when all ten have failed
\* the only dialog is the one of the first failure and nothing is dialed
\* any more
RetryBoundedSilent ==
  \A l \in DOMAIN retry :
    /\ retry[l].fired <= MaxAttempts
    /\ Exhausted(l) =>
         /\ Len(dialogs) = 1
         /\ dialogs[1].kind = "error"
         /\ dialogs[1].text = "Can't connect to host"
         /\ dials = MaxAttempts + 1

\* C5: the retry loop makes at most ten attempts, ends silently when all of
\* them fail, dials nothing afterwards, and always terminates
RetryTerminates ==
  /\ []RetryBoundedSilent
  /\ (retry # <<>>) ~> (\A l \in DOMAIN retry : retry[l].pc = "done")

\* ten failed attempts, loop over
RetryTerminatesWitness == \E l \in DOMAIN retry : Exhausted(l)

\* C6: a retry that connects shows "Connection restored!" once and ends the
\* loop, nothing is dialed after it, and the dialog is shown only when a
\* retry (a dial after the first one) has connected
RetrySuccess ==
  /\ (last.ev = "connect" /\ last.isReconnect /\ last.ret) =>
       /\ dialogs = Append(last.pre.dialogs, InfoDialog("Connection restored!"))
       /\ \A l \in DOMAIN retry : retry[l].pc = "done"
  /\ Client # NoClient => dials = Client
  /\ Restored = IF Client >= 2 THEN 1 ELSE 0
  /\ \A l \in DOMAIN retry :
       (retry[l].pc # "done" /\ retry[l].pc # "initial") => Client = NoClient

\* a retry after the first one has just connected
RetrySuccessWitness ==
  /\ last.ev = "connect" /\ last.isReconnect /\ last.ret
  /\ last.attempt >= 2

\* C7: a failed dial returns false and leaves Connected false and Client as
\* it was; the first connect then shows one error with the description and
\* starts one retry loop, a retry shows nothing and starts nothing
DialFailureHandling ==
  (last.ev = "connect" /\ ~last.dial.ok) =>
    /\ last.ret = FALSE
    /\ Connected = FALSE
    /\ Client = last.pre.Client
    /\ ~last.isReconnect =>
         /\ dialogs = Append(last.pre.dialogs, CantConnect(last.addr, last.dial.err))
         /\ Len(retry) = last.pre.loops + 1
         /\ retry[Len(retry)] = NewRetryLoop
    /\ last.isReconnect =>
         /\ dialogs = last.pre.dialogs
         /\ Len(retry) = last.pre.loops

\* a retry's dial has just failed (after the first dial had failed)
DialFailureHandlingWitness ==
  /\ last.ev = "connect" /\ ~last.dial.ok /\ last.isReconnect
  /\ Len(dialogs) = 1 /\ dialogs[1].kind = "error"
  /\ Len(retry) = 1

\* C8 as stated: once the transport of the current client has gone down,
\* Connected is false
DisconnectFlipsConnected ==
  (Client # NoClient /\ Client \notin alive) => ~Connected

\* C9: a retry loop exists only if the first dial failed, and then only one;
\* a disconnect shows "Disconnected!" and starts no loop; nothing is dialed
\* once a client has been set
RetryAsymmetry ==
  /\ Len(retry) = IF failedAt >= 0 THEN 1 ELSE 0
  /\ last.ev = "disconnect" =>
       /\ Len(retry) = last.pre.loops
       /\ dialogs = Append(last.pre.dialogs, ErrorDialog("Disconnected!", NoAddr, ""))
       /\ dials = last.pre.dials
  /\ last.ev = "connect" => last.pre.Client = NoClient
  /\ Client # NoClient => dials = Client /\ \A l \in DOMAIN retry : retry[l].pc = "done"

\* the session's transport has just gone down
RetryAsymmetryWitness ==
  /\ last.ev = "disconnect" /\ last.handle = Client
  /\ Connected

(***************************************************************************)
(* Properties of message routing and of the channel directory              *)
(***************************************************************************)
\* the "/message" handler has just run for a message written by author to
\* chat chatId, with the viewer viewer on channel chat
Routed(author, chatId, viewer, chat) ==
  /\ last.ev = "/message"
  /\ last.msg.UserData.Id = author /\ last.msg.ChatId = chatId
  /\ last.viewer = viewer /\ last.chat = chat

\* what the handler appended when the message was to be shown / not shown
Shown == last.added = <<last.msg>>
NotShown == last.added = <<>>

\* C1: a message to the group chat is appended exactly when the current
\* channel is the group, whoever wrote it (scenario A: viewer 7 on channel 0
\* sees 3 -> 0 and not 3 -> 9)
GroupVisibility ==
  /\ (last.ev = "/message" /\ last.msg.ChatId = GROUP_CHAT_ID) =>
       IF last.chat = GROUP_CHAT_ID THEN Shown ELSE NotShown
  /\ Routed(3, 0, 7, 0) => Shown
  /\ Routed(3, 9, 7, 0) => NotShown

\* scenario A: viewer 7 on the group channel has been shown 3 -> 0
GroupVisibilityWitness == Routed(3, 0, 7, 0) /\ Shown /\ MessagesList # <<>>

\* C2: a message the viewer wrote to the viewer's own id is appended exactly
\* when the current channel is the viewer's id (scenario B: viewer 7 on
\* channel 7 sees 7 -> 7 and not 7 -> 9)
NotesVisibility ==
  /\ ( /\ last.ev = "/message"
       /\ last.viewer # GROUP_CHAT_ID
       /\ last.msg.UserData.Id = last.viewer
       /\ last.msg.ChatId = last.viewer ) =>
       IF last.chat = last.viewer THEN Shown ELSE NotShown
  /\ Routed(7, 7, 7, 7) => Shown
  /\ Routed(7, 9, 7, 7) => NotShown

\* scenario B: viewer 7 on the notes channel has been shown 7 -> 7
NotesVisibilityWitness == Routed(7, 7, 7, 7) /\ Shown /\ MessagesList # <<>>

\* C3: a private message that is not a notes message is appended exactly when
\* the viewer wrote it and has its chat open, or it is addressed to the viewer
\* and the viewer has the author's channel open (scenario C: viewer 7 on
\* channel 9 sees 9 -> 7 and 7 -> 9 and not 9 -> 3)
PrivateRouting ==
  /\ ( /\ last.ev = "/message"
       /\ last.msg.ChatId # GROUP_CHAT_ID
       /\ ~(last.msg.UserData.Id = last.viewer /\ last.msg.ChatId = last.viewer) ) =>
       IF \/ last.msg.UserData.Id = last.viewer /\ last.chat = last.msg.ChatId
          \/ last.msg.ChatId = last.viewer /\ last.chat = last.msg.UserData.Id
         THEN Shown ELSE NotShown
  /\ Routed(9, 7, 7, 9) => Shown
  /\ Routed(7, 9, 7, 9) => Shown
  /\ Routed(9, 3, 7, 9) => NotShown

\* scenario C: viewer 7 on channel 9 has been shown 9 -> 7
PrivateRoutingWitness == Routed(9, 7, 7, 9) /\ Shown /\ MessagesList # <<>>

\* the channel openChannelByUser creates for a user
ChannelOf(user) == [Id |-> user.Id, Title |-> user.Username]

\* C10: openChannelByUser leaves the directory alone for the viewer's own id
\* and for an id already present, appends Channel{id, username} for an id not
\* present, and a second call in a row for the same identity changes nothing
DirectoryDedup ==
  /\ last.ev = "openChannelByUser" =>
       LET present == \E k \in DOMAIN last.Channels :
                         last.Channels[k].Id = last.user.Id
       IN /\ last.again => Channels = last.Channels
          /\ last.user.Id = last.viewer => Channels = last.Channels
          /\ present => Channels = last.Channels
          /\ (last.user.Id # last.viewer /\ ~present) =>
               Channels = Append(last.Channels, ChannelOf(last.user))
  /\ \A u \in Identities :
       LET s1 == openChannelByUser(SessionState, u)
           s2 == openChannelByUser(s1, u)
       IN /\ s2.Channels = s1.Channels
          /\ Len(s1.Channels) <= Len(Channels) + 1

\* the author of a displayed message was tapped twice in a row, and the
\* first tap had added the channel
DirectoryDedupWitness ==
  /\ last.ev = "openChannelByUser" /\ last.again
  /\ last.user.Id # last.viewer
  /\ Channels # <<>> /\ Channels[Len(Channels)] = ChannelOf(last.user)

(***************************************************************************)
(* Properties of title resolution                                          *)
(***************************************************************************)
\* C11 as stated: the group title resolves to the group id and the notes
\* title to the viewer's id whatever the directory holds; another title
\* resolves to a channel of that title, or to the group id if there is none
ResolveId ==
  /\ getChannelId(SessionState, GROUP_CHANNEL_TITLE) = GROUP_CHAT_ID
  /\ getChannelId(SessionState, NOTES_CHANNEL_TITLE) = CurrentUser.Id
  /\ \A t \in OptionTitles \ {GROUP_CHANNEL_TITLE, NOTES_CHANNEL_TITLE} :
       IF \E k \in DOMAIN Channels : Channels[k].Title = t
         THEN \E k \in DOMAIN Channels :
                Channels[k].Title = t /\ getChannelId(SessionState, t) = Channels[k].Id
         ELSE getChannelId(SessionState, t) = GROUP_CHAT_ID
  /\ (last.ev = "tap" /\ last.title = GROUP_CHANNEL_TITLE) =>
       CurrentChatId = GROUP_CHAT_ID

(***************************************************************************)
(* Properties of the settings file                                         *)
(***************************************************************************)
DefaultHostData == [Host |-> DEFAULT_HOST, Port |-> DEFAULT_PORT]
Loaded == last.ev \in {"load", "reload"}
Unreadable(file) == file.state \in {"absent", "corrupt"}
\* a load of this file returns the default and leaves the file as it is
LoadsDefaultWritesNothing(file) ==
  /\ LoadedHostData(file) = DefaultHostData
  /\ \A written \in WriteOutcomes : FileAfterLoad(file, written) = file

\* C12 as stated: a load of an absent or unparsable file returns the default
\* and writes it to the file, a second load returns the same default from the
\* file and writes nothing; a load of a well-formed file returns its host and
\* port and writes nothing
ConfigRecoveryAsStated ==
  Loaded =>
    IF Unreadable(last.file)
      THEN /\ last.ret = DefaultHostData
           /\ settings = [state |-> "ok", data |-> Marshal(DefaultHostData)]
           /\ LoadsDefaultWritesNothing(settings)
      ELSE /\ last.ret = [Host |-> last.file.data.host, Port |-> last.file.data.port]
           /\ settings = last.file

\* C12: a load of an absent or unparsable file returns the default and tries
\* to write it: if the write succeeds the file holds the default and a second
\* load returns it from the file and writes nothing, if it fails the file is
\* left as it was and a second load returns the default again; a load of a
\* well-formed file returns its host and port and writes nothing
ConfigRecovery ==
  Loaded =>
    IF Unreadable(last.file)
      THEN /\ last.ret = DefaultHostData
           /\ LoadedHostData(settings) = DefaultHostData
           /\ IF last.written
                THEN /\ settings = [state |-> "ok", data |-> Marshal(DefaultHostData)]
                     /\ LoadsDefaultWritesNothing(settings)
                ELSE settings = last.file
      ELSE /\ last.ret = [Host |-> last.file.data.host, Port |-> last.file.data.port]
           /\ settings = last.file

\* the first load found an unparsable file and replaced it
ConfigRecoveryWitness ==
  /\ last.ev = "load" /\ last.file.state = "corrupt" /\ last.written
  /\ settings.state = "ok"

(***************************************************************************)
(* Properties of the user's actions and of the failure events              *)
(***************************************************************************)
\* the connection is established and has not been lost
Established == Connected /\ Client \in alive
\* the last step showed exactly one more dialog, an error
Notified ==
  /\ Len(dialogs) = last.shown + 1
  /\ dialogs[Len(dialogs)].kind = "error"

\* C13 as stated: a send of login data, register data or a message, or the
\* opening of a channel, attempted while the connection is not established or
\* is lost, or (message, channel) while not logged in, emits nothing and
\* shows a notification
PreconditionErrors ==
  /\ (last.ev \in {"sendLoginData", "sendRegisterData"} /\ ~Established) =>
       emitted = <<>> /\ Notified
  /\ (last.ev \in {"sendMessage", "tap"} /\ (~Established \/ ~LoggedIn)) =>
       emitted = <<>> /\ Notified

\* C15 as stated: CurrentUser holds an identity only when LoggedIn is true
SessionInvariant == CurrentUser # NoUser => LoggedIn

\* C18 as stated: the "/failed-registeration" handler shows the registration
\* dialog with the server's description and leaves LoggedIn, CurrentUser,
\* CurrentChatId, Channels and the displayed messages as they were
RegisterFailedFrame ==
  last.ev = "/failed-registeration" =>
    /\ prompts = last.pre.prompts \cup {Prompt("register", last.description)}
    /\ LoggedIn = last.pre.LoggedIn
    /\ CurrentUser = last.pre.CurrentUser
    /\ CurrentChatId = last.pre.CurrentChatId
    /\ Channels = last.pre.Channels
    /\ MessagesList = last.pre.MessagesList

\* C14: after the "/login" handler has run for user u, whatever the state
\* before, CurrentUser is u, LoggedIn is true, the open chat is the group
\* chat, no message is displayed, and the handler has emitted exactly one
\* "/get-channels" request, which carries u
LoginEffect ==
  last.ev = "/login" =>
    /\ CurrentUser = last.user
    /\ LoggedIn
    /\ CurrentChatId = GROUP_CHAT_ID
    /\ MessagesList = <<>>
    /\ emitted = <<Outbound("/get-channels", 0, last.user)>>

\* a second login, as another user, of a session that had a directory and had
\* the notes channel selected
LoginEffectWitness ==
  /\ last.ev = "/login"
  /\ Channels # <<>>
  /\ Selected = NOTES_CHANNEL_TITLE
  /\ CurrentUser = last.user

(***************************************************************************)
(* Properties of the directory and of the radio group                      *)
(***************************************************************************)
\* C16 as stated: Channels never holds two entries with the same Id
DirectoryUnique ==
  \A i, j \in DOMAIN Channels : Channels[i].Id = Channels[j].Id => i = j

\* C17 as stated: a radio group that is not empty starts with the group
\* title and the notes title, neither occurs again, and no further option
\* opens the viewer's own id
ImplicitEntries ==
  Options # <<>> =>
    /\ Len(Options) >= 2
    /\ Options[1] = GROUP_CHANNEL_TITLE
    /\ Options[2] = NOTES_CHANNEL_TITLE
    /\ \A k \in 3..Len(Options) :
         /\ Options[k] \notin {GROUP_CHANNEL_TITLE, NOTES_CHANNEL_TITLE}
         /\ CurrentUser # NoUser =>
              getChannelId(SessionState, Options[k]) # CurrentUser.Id

(***************************************************************************)
(* Properties of who writes the session                                    *)
(***************************************************************************)
\* a step of the user-input task: a callback of the radio group or of the
\* message list
UserInputStep ==
  \/ \E title \in OptionTitles : TapChannel(title)
  \/ \E k \in 1..MaxMsgs : TapAuthor(k)

\* C19 as stated: a step of the user-input task or of a retry goroutine
\* writes none of CurrentUser, LoggedIn, CurrentChatId, Channels and the
\* displayed messages
SerializedMutation ==
  [][(UserInputStep \/ RetryStep) =>
       UNCHANGED <<CurrentUser, LoggedIn, CurrentChatId, Channels, MessagesList>>]_vars

(***************************************************************************)
(* Properties of the displayed messages                                    *)
(***************************************************************************)
\* the "/message" handler, run now, would display msg
Visible(msg) ==
  addMessageToList(SessionState, msg) = HandleMessage(SessionState, msg)

\* C20 as stated: every displayed message is one the "/message" handler
\* would display for the present CurrentUser and CurrentChatId
ViewConsistency == \A k \in DOMAIN MessagesList : Visible(MessagesList[k])

(***************************************************************************)
(* Properties of the connection flag                                       *)
(***************************************************************************)
\* the handles Dial has returned
Dialed == {b[1] : b \in bound}
AllBound == \A e \in InboundEvents : <<Client, e>> \in bound

\* C21 as stated: whenever Connected is true, Client is the client of the
\* latest successful Dial and the six handlers of initClientCallbacks are
\* bound on it, so nothing has been emitted with a handler unbound
HandlersBound ==
  /\ Connected =>
       /\ Client \in Dialed /\ \A h \in Dialed : h <= Client
       /\ AllBound
  /\ emitted # <<>> => AllBound

\* a Dial is still to come: main has not dialled yet, or a retry loop runs
DialAhead ==
  \/ mainPc \in {"load", "settle", "dial"}
  \/ \E l \in DOMAIN retry : retry[l].pc # "done"

\* C22: whenever LoggedIn is true, Connected is true and Client is a client
\* Dial has returned, and no first dial or retry is under way
LoginImpliesConnection ==
  LoggedIn => Connected /\ Client \in Dialed /\ ~DialAhead

\* a login on the client of a retry, after the first dial had failed
LoginImpliesConnectionWitness ==
  /\ last.ev = "/login" /\ LoggedIn
  /\ failedAt >= 0

====
